---- MODULE Spec2Model ----
(***************************************************************************)
(* Model of the replication-lag gate of                                    *)
(* eden/mononoke/common/wait_for_replication/src/lib.rs.                    *)
(*                                                                         *)
(* One WaitForReplication value (and its clones, which share `state`) is   *)
(* called by a fixed set of callers.  A call reads the configuration,      *)
(* takes the tokio mutex around State, and drives the two wait_for_table   *)
(* futures with try_join!.  try_join! polls its futures in the order they  *)
(* are written and returns at the first one that is Ready(Err), dropping   *)
(* the futures that have not completed.  Every poll of the joined future   *)
(* is one step of the model; monitors and the clock are the environment.   *)
(***************************************************************************)
EXTENDS Integers, Sequences, FiniteSets, TLC

\* ------------------------------------------------------------------ bounds
MaxTime == 2          \* the clock runs over 0..MaxTime
MaxLag == 2           \* a replica's true lag ranges over 0..MaxLag
MaxReloads == 1       \* configuration reloads in one behaviour

\* ------------------------------------------------------------ static data
Callers == {"a", "b"}

SyncQueue == "sync queue"
XdbBlobstore == "XDB blobstore"
Targets == {SyncQueue, XdbBlobstore}

MonitorErrors == {"unreachable", "timeout"}

\* Option<T>: None is the empty sequence, Some(v) a sequence of one element.
None == <<>>
Some(v) == <<v>>
IsSome(o) == Len(o) = 1
Unwrap(o) == o[1]

\* ReplicationLagTableConfig: the two raw (signed) millisecond fields.
TableConfig(max_ms, poll_ms) ==
    [ max_replication_lag_allowed_ms |-> max_ms, poll_interval_ms |-> poll_ms ]

\* The table configurations the store may publish: a budget one below the
\* largest lag, either polled rarely (the poll interval outlasts the clock)
\* or with no spacing between polls, and a malformed (negative) value in
\* either field.
Budget == MaxLag - 1
ReplicationLagTableConfig ==
    { TableConfig(Budget, MaxTime + 1), TableConfig(Budget, 0),
      TableConfig(-1, 0), TableConfig(Budget, -1) }

\* ReplicationLagBlobstoreConfig: sync_queue and xdb_blobstore are both optional.
ReplicationLagBlobstoreConfig ==
    [ Targets -> {None} \cup { Some(tc) : tc \in ReplicationLagTableConfig } ]

\* i64 -> u64 `try_into()`: fails on a negative value.
TryIntoOk(ms) == ms >= 0

\* Results of a call and of a step.
NoResult == [ tag |-> "none", target |-> "-", kind |-> "-", code |-> "-" ]
OkResult == [ tag |-> "ok", target |-> "-", kind |-> "-", code |-> "-" ]
ErrResult(t, k, e) == [ tag |-> "err", target |-> t, kind |-> k, code |-> e ]

\* --------------------------------------------------------------- variables
VARIABLES
    now,        \* the monotonic clock (Instant::now())
    trueLag,    \* per target, the replica's actual lag (environment)
    config,     \* what config_handle.get() returns at this moment
    reloads,    \* number of configuration reloads so far
    state,      \* State behind the mutex: per target Option<(Instant, Duration)>
    owner,      \* holder of the mutex guard, or None
    waitq,      \* callers suspended in state.lock().await, in arrival order
    pc,         \* per caller: "idle", "waiting", "locked", "polling", "done",
                \* or "dropped" when the caller gave the call up
    snap,       \* per caller: the config read at entry of its call
    step,       \* per caller and target: where the wait_for_table future is
    invoked,    \* per caller and target: monitor invocations in this call
    result,     \* per caller: what the call returned
    withinBudget \* history, per caller and target: when the step finished Ok,
                \* was the true lag at most the budget the call used

vars == << now, trueLag, config, reloads, state, owner, waitq, pc, snap, step, invoked,
           result, withinBudget >>

\* ------------------------------------------------- wait_for_table, per poll
Step(st, e) == [ st |-> st, err |-> e ]
InitStep == Step("init", "-")

OkSteps == {"unconfigured", "skip_recent", "skip_bound", "updated"}
ErrSteps == {"cfg_error", "mon_error"}

\* Variant of Elapsed: the time since the measurement is taken in a finer
\* unit than the thresholds it is compared with.
ElapsedFinerUnit(instant) == (now - instant) * 1000

\* instant.elapsed()
Elapsed(instant) == now - instant

\* Duration::from_millis(raw.try_into()?) for both fields (lib.rs 140-142).
ConfigWellFormed(raw) ==
    /\ TryIntoOk(raw.max_replication_lag_allowed_ms)
    /\ TryIntoOk(raw.poll_interval_ms)

\* Variant of QueriedTooRecently: the cached lag is not compared to the budget.
QueriedTooRecentlyAnyLag(last_lag, max_replication_lag_allowed, poll_interval) ==
    /\ IsSome(last_lag)
    /\ Elapsed(Unwrap(last_lag).instant) < poll_interval

\* Variant of QueriedTooRecently: the comparison with poll_interval is inverted.
QueriedTooRecentlyInverted(last_lag, max_replication_lag_allowed, poll_interval) ==
    /\ IsSome(last_lag)
    /\ Elapsed(Unwrap(last_lag).instant) > poll_interval
    /\ Unwrap(last_lag).duration < max_replication_lag_allowed

\* First match arm: "If queried too recently, just assume it's all ok."
QueriedTooRecently(last_lag, max_replication_lag_allowed, poll_interval) ==
    /\ IsSome(last_lag)
    /\ Elapsed(Unwrap(last_lag).instant) < poll_interval
    /\ Unwrap(last_lag).duration < max_replication_lag_allowed

\* Variant of ImpossibleToSurpass: the time since the measurement is left out.
ImpossibleToSurpassNoElapsed(last_lag, max_replication_lag_allowed) ==
    /\ IsSome(last_lag)
    /\ Unwrap(last_lag).duration < max_replication_lag_allowed

\* Variant of ImpossibleToSurpass: the bound is inclusive.
ImpossibleToSurpassInclusive(last_lag, max_replication_lag_allowed) ==
    /\ IsSome(last_lag)
    /\ Unwrap(last_lag).duration + Elapsed(Unwrap(last_lag).instant)
           <= max_replication_lag_allowed

\* Variant of ImpossibleToSurpass: the time since the measurement is taken
\* off the cached lag instead of added to it.
ImpossibleToSurpassMinus(last_lag, max_replication_lag_allowed) ==
    /\ IsSome(last_lag)
    /\ Unwrap(last_lag).duration - Elapsed(Unwrap(last_lag).instant)
           < max_replication_lag_allowed

\* Second match arm: "If impossible to have surpassed replication_lag, don't query".
ImpossibleToSurpass(last_lag, max_replication_lag_allowed) ==
    /\ IsSome(last_lag)
    /\ Unwrap(last_lag).duration + Elapsed(Unwrap(last_lag).instant)
           < max_replication_lag_allowed

\* Variant of Decide: the raw values are cast, not checked, so a malformed
\* configuration reaches the query.
DecideUnchecked(last_lag, cfg) ==
    IF cfg = None THEN "unconfigured"
    ELSE IF QueriedTooRecently(last_lag, Unwrap(cfg).max_replication_lag_allowed_ms,
                               Unwrap(cfg).poll_interval_ms) THEN "skip_recent"
    ELSE IF ImpossibleToSurpass(last_lag, Unwrap(cfg).max_replication_lag_allowed_ms)
         THEN "skip_bound"
    ELSE "query"

\* What wait_for_table does up to its only await: the name of the branch taken.
Decide(last_lag, cfg) ==
    IF cfg = None THEN "unconfigured"
    ELSE IF ~ConfigWellFormed(Unwrap(cfg)) THEN "cfg_error"
    ELSE IF QueriedTooRecently(last_lag, Unwrap(cfg).max_replication_lag_allowed_ms,
                               Unwrap(cfg).poll_interval_ms) THEN "skip_recent"
    ELSE IF ImpossibleToSurpass(last_lag, Unwrap(cfg).max_replication_lag_allowed_ms)
         THEN "skip_bound"
    ELSE "query"

\* What a poll of monitor.wait_for_replication(&config) can answer: still
\* pending, an error, or the lag it observed, which is within the budget.
Pending == [ kind |-> "pending", delay |-> 0, err |-> "-" ]
MonitorOutcomes(t, cfg) ==
    {Pending}
    \cup { [ kind |-> "err", delay |-> 0, err |-> e ] : e \in MonitorErrors }
    \cup IF trueLag[t] <= Unwrap(cfg).max_replication_lag_allowed_ms
         THEN { [ kind |-> "ok", delay |-> trueLag[t], err |-> "-" ] }
         ELSE {}

\* The monitor is consulted by a poll only when the future is at, or reaches,
\* the await of line 167.
AtAwait(cur, last_lag, cfg) ==
    \/ cur.st = "querying"
    \/ cur.st = "init" /\ Decide(last_lag, cfg) = "query"

PollOutcomes(c, t) ==
    IF AtAwait(step[c][t], state[t], snap[c][t])
    THEN MonitorOutcomes(t, snap[c][t]) ELSE {Pending}

\* The value written by `*last_lag = Some((Instant::now(), new_last_lag.delay))`.
NewLastLag(out) == Some([ instant |-> now, duration |-> out.delay ])

\* Variant of AwaitMonitor: a failed query clears the cache entry.
AwaitMonitorClearOnError(last_lag, inv, out) ==
    CASE out.kind = "pending" -> [ step |-> Step("querying", "-"), last |-> last_lag, inv |-> inv ]
      [] out.kind = "err" -> [ step |-> Step("mon_error", out.err), last |-> None, inv |-> inv ]
      [] out.kind = "ok" -> [ step |-> Step("updated", "-"), last |-> NewLastLag(out), inv |-> inv ]

\* Variant of AwaitMonitor: a cached entry is not overwritten by a new one.
AwaitMonitorKeepOld(last_lag, inv, out) ==
    CASE out.kind = "pending" -> [ step |-> Step("querying", "-"), last |-> last_lag, inv |-> inv ]
      [] out.kind = "err" -> [ step |-> Step("mon_error", out.err), last |-> last_lag, inv |-> inv ]
      [] out.kind = "ok" -> [ step |-> Step("updated", "-"),
                              last |-> IF IsSome(last_lag) THEN last_lag ELSE NewLastLag(out),
                              inv |-> inv ]

\* Variant of AwaitMonitor: the gate gives up on a monitor that has not
\* answered, with an error of its own.
AwaitMonitorGivesUp(last_lag, inv, out) ==
    CASE out.kind = "pending" -> [ step |-> Step("mon_error", "elapsed"), last |-> last_lag, inv |-> inv ]
      [] out.kind = "err" -> [ step |-> Step("mon_error", out.err), last |-> last_lag, inv |-> inv ]
      [] out.kind = "ok" -> [ step |-> Step("updated", "-"), last |-> NewLastLag(out), inv |-> inv ]

\* Lines 167-168: the await on the monitor, `?`, then the store.
AwaitMonitor(last_lag, inv, out) ==
    CASE out.kind = "pending" -> [ step |-> Step("querying", "-"), last |-> last_lag, inv |-> inv ]
      [] out.kind = "err" -> [ step |-> Step("mon_error", out.err), last |-> last_lag, inv |-> inv ]
      [] out.kind = "ok" -> [ step |-> Step("updated", "-"), last |-> NewLastLag(out), inv |-> inv ]

\* Variant of PollTable: every poll of a step that waits for its monitor
\* starts the query again.
PollTableRequery(cur, last_lag, cfg, inv, out) ==
    IF cur.st = "querying" THEN AwaitMonitor(last_lag, inv + 1, out)
    ELSE LET d == Decide(last_lag, cfg) IN
         IF d = "query" THEN AwaitMonitor(last_lag, inv + 1, out)
         ELSE [ step |-> Step(d, IF d = "cfg_error" THEN "TryFromIntError" ELSE "-"),
                last |-> last_lag, inv |-> inv ]

\* Variant of PollTable: a step that skips the query refreshes the time of
\* the cached measurement.
PollTableRefreshing(cur, last_lag, cfg, inv, out) ==
    IF cur.st = "querying" THEN AwaitMonitor(last_lag, inv, out)
    ELSE LET d == Decide(last_lag, cfg) IN
         IF d = "query" THEN AwaitMonitor(last_lag, inv + 1, out)
         ELSE [ step |-> Step(d, IF d = "cfg_error" THEN "TryFromIntError" ELSE "-"),
                last |-> IF d \in {"skip_recent", "skip_bound"}
                         THEN Some([ instant |-> now, duration |-> Unwrap(last_lag).duration ])
                         ELSE last_lag,
                inv |-> inv ]

\* Variant of PollTable: a step that does not query clears the cache entry.
PollTableClearing(cur, last_lag, cfg, inv, out) ==
    IF cur.st = "querying" THEN AwaitMonitor(last_lag, inv, out)
    ELSE LET d == Decide(last_lag, cfg) IN
         IF d = "query" THEN AwaitMonitor(last_lag, inv + 1, out)
         ELSE [ step |-> Step(d, IF d = "cfg_error" THEN "TryFromIntError" ELSE "-"),
                last |-> None, inv |-> inv ]

\* One poll of a wait_for_table future that has not completed.
PollTable(cur, last_lag, cfg, inv, out) ==
    IF cur.st = "querying" THEN AwaitMonitor(last_lag, inv, out)
    ELSE LET d == Decide(last_lag, cfg) IN
         IF d = "query" THEN AwaitMonitor(last_lag, inv + 1, out)
         ELSE [ step |-> Step(d, IF d = "cfg_error" THEN "TryFromIntError" ELSE "-"),
                last |-> last_lag, inv |-> inv ]

\* MaybeDone: a future that completed in an earlier poll is not polled again.
PollMaybeDone(cur, last_lag, cfg, inv, out) ==
    IF cur.st \in OkSteps THEN [ step |-> cur, last |-> last_lag, inv |-> inv ]
    ELSE PollTable(cur, last_lag, cfg, inv, out)

\* Variant of Dropped: the unfinished future is left running.
DroppedLeftRunning(r) == r

\* A future dropped by try_join! before it completed.
Dropped(r) ==
    IF r.step.st = "querying" THEN [ r EXCEPT !.step = Step("cancelled", "-") ] ELSE r

\* The Err a failed step hands to try_join! (`?` on lines 141, 142, 167).
StepError(t, s) ==
    ErrResult(t, IF s.st = "cfg_error" THEN "config" ELSE "monitor", s.err)

\* Variant of TryJoin: only the first future's error is propagated.
TryJoinFirstOnly(c, o1, o2) ==
    LET cur1 == [ step |-> step[c][SyncQueue], last |-> state[SyncQueue],
                  inv |-> invoked[c][SyncQueue] ]
        cur2 == [ step |-> step[c][XdbBlobstore], last |-> state[XdbBlobstore],
                  inv |-> invoked[c][XdbBlobstore] ]
        r1 == PollMaybeDone(cur1.step, cur1.last, snap[c][SyncQueue], cur1.inv, o1)
        r2 == PollMaybeDone(cur2.step, cur2.last, snap[c][XdbBlobstore], cur2.inv, o2)
    IN  IF r1.step.st \in ErrSteps
        THEN [ r1 |-> r1, r2 |-> Dropped(cur2), out |-> StepError(SyncQueue, r1.step) ]
        ELSE IF r1.step.st \in OkSteps /\ r2.step.st \in OkSteps \cup ErrSteps
        THEN [ r1 |-> r1, r2 |-> r2, out |-> OkResult ]
        ELSE [ r1 |-> r1, r2 |-> r2, out |-> NoResult ]

\* Variant of TryJoin: the two steps are awaited one after the other, the
\* second is first polled when the first has completed.
TryJoinSequential(c, o1, o2) ==
    LET cur1 == [ step |-> step[c][SyncQueue], last |-> state[SyncQueue],
                  inv |-> invoked[c][SyncQueue] ]
        cur2 == [ step |-> step[c][XdbBlobstore], last |-> state[XdbBlobstore],
                  inv |-> invoked[c][XdbBlobstore] ]
        r1 == PollMaybeDone(cur1.step, cur1.last, snap[c][SyncQueue], cur1.inv, o1)
        r2 == PollMaybeDone(cur2.step, cur2.last, snap[c][XdbBlobstore], cur2.inv, o2)
    IN  IF r1.step.st \in ErrSteps
        THEN [ r1 |-> r1, r2 |-> cur2, out |-> StepError(SyncQueue, r1.step) ]
        ELSE IF r1.step.st \notin OkSteps
        THEN [ r1 |-> r1, r2 |-> cur2, out |-> NoResult ]
        ELSE IF r2.step.st \in ErrSteps
        THEN [ r1 |-> r1, r2 |-> r2, out |-> StepError(XdbBlobstore, r2.step) ]
        ELSE IF r2.step.st \in OkSteps
        THEN [ r1 |-> r1, r2 |-> r2, out |-> OkResult ]
        ELSE [ r1 |-> r1, r2 |-> r2, out |-> NoResult ]

\* Variant of TryJoin: when a step fails, what the other step stored in this
\* call is taken back.
TryJoinRollback(c, o1, o2) ==
    LET cur1 == [ step |-> step[c][SyncQueue], last |-> state[SyncQueue],
                  inv |-> invoked[c][SyncQueue] ]
        cur2 == [ step |-> step[c][XdbBlobstore], last |-> state[XdbBlobstore],
                  inv |-> invoked[c][XdbBlobstore] ]
        r1 == PollMaybeDone(cur1.step, cur1.last, snap[c][SyncQueue], cur1.inv, o1)
        r2 == PollMaybeDone(cur2.step, cur2.last, snap[c][XdbBlobstore], cur2.inv, o2)
        Back(r) == IF r.step.st = "updated" THEN [ r EXCEPT !.last = None ] ELSE r
    IN  IF r1.step.st \in ErrSteps
        THEN [ r1 |-> r1, r2 |-> Back(Dropped(cur2)), out |-> StepError(SyncQueue, r1.step) ]
        ELSE IF r2.step.st \in ErrSteps
        THEN [ r1 |-> Back(Dropped(r1)), r2 |-> r2, out |-> StepError(XdbBlobstore, r2.step) ]
        ELSE IF r1.step.st \in OkSteps /\ r2.step.st \in OkSteps
        THEN [ r1 |-> r1, r2 |-> r2, out |-> OkResult ]
        ELSE [ r1 |-> r1, r2 |-> r2, out |-> NoResult ]

\* try_join!(sync queue, XDB blobstore): one poll.  The futures are polled
\* in order; the first Ready(Err) is returned at once.
TryJoin(c, o1, o2) ==
    LET cur1 == [ step |-> step[c][SyncQueue], last |-> state[SyncQueue],
                  inv |-> invoked[c][SyncQueue] ]
        cur2 == [ step |-> step[c][XdbBlobstore], last |-> state[XdbBlobstore],
                  inv |-> invoked[c][XdbBlobstore] ]
        r1 == PollMaybeDone(cur1.step, cur1.last, snap[c][SyncQueue], cur1.inv, o1)
        r2 == PollMaybeDone(cur2.step, cur2.last, snap[c][XdbBlobstore], cur2.inv, o2)
    IN  IF r1.step.st \in ErrSteps
        THEN [ r1 |-> r1, r2 |-> Dropped(cur2), out |-> StepError(SyncQueue, r1.step) ]
        ELSE IF r2.step.st \in ErrSteps
        THEN [ r1 |-> Dropped(r1), r2 |-> r2, out |-> StepError(XdbBlobstore, r2.step) ]
        ELSE IF r1.step.st \in OkSteps /\ r2.step.st \in OkSteps
        THEN [ r1 |-> r1, r2 |-> r2, out |-> OkResult ]
        ELSE [ r1 |-> r1, r2 |-> r2, out |-> NoResult ]

\* ------------------------------------------------------------------ actions
TypeOK ==
    /\ now \in 0..MaxTime
    /\ trueLag \in [Targets -> 0..MaxLag]
    /\ config \in [Targets -> {None} \cup { Some(TableConfig(m, p)) :
                                               m \in -1..MaxLag, p \in -1..(MaxTime + 1) }]
    /\ reloads \in 0..MaxReloads
    /\ owner \in {None} \cup { Some(c) : c \in Callers }
    /\ pc \in [Callers -> {"idle", "waiting", "locked", "polling", "done", "dropped"}]

Init ==
    /\ now = 0
    /\ trueLag \in [Targets -> 0..MaxLag]
    /\ config \in ReplicationLagBlobstoreConfig
    /\ reloads = 0
    /\ state = [ t \in Targets |-> None ]
    /\ owner = None
    /\ waitq = <<>>
    /\ pc = [ c \in Callers |-> "idle" ]
    /\ snap = [ c \in Callers |-> [ t \in Targets |-> None ] ]
    /\ step = [ c \in Callers |-> [ t \in Targets |-> InitStep ] ]
    /\ invoked = [ c \in Callers |-> [ t \in Targets |-> 0 ] ]
    /\ result = [ c \in Callers |-> NoResult ]
    /\ withinBudget = [ c \in Callers |-> [ t \in Targets |-> TRUE ] ]

\* Line 106, then the call suspends in `self.state.lock().await`.
Enter(c) ==
    /\ pc[c] = "idle"
    /\ pc' = [ pc EXCEPT ![c] = "waiting" ]
    /\ snap' = [ snap EXCEPT ![c] = config ]
    /\ waitq' = Append(waitq, c)
    /\ UNCHANGED << now, trueLag, config, reloads, state, owner, step, invoked, result, withinBudget >>

\* Variant of Acquire: the configuration is read after the lock was acquired.
AcquireRereads(c) ==
    /\ pc[c] = "waiting"
    /\ owner = None
    /\ waitq # <<>>
    /\ Head(waitq) = c
    /\ owner' = Some(c)
    /\ waitq' = Tail(waitq)
    /\ pc' = [ pc EXCEPT ![c] = "locked" ]
    /\ snap' = [ snap EXCEPT ![c] = config ]
    /\ UNCHANGED << now, trueLag, config, reloads, state, step, invoked, result, withinBudget >>

\* Variant of Acquire: the lock is handed to any waiter, not the first in line.
AcquireUnfair(c) ==
    /\ pc[c] = "waiting"
    /\ owner = None
    /\ waitq # <<>>
    /\ owner' = Some(c)
    /\ waitq' = SelectSeq(waitq, LAMBDA x : x # c)
    /\ pc' = [ pc EXCEPT ![c] = "locked" ]
    /\ UNCHANGED << now, trueLag, config, reloads, state, snap, step, invoked, result, withinBudget >>

\* Variant of Acquire: a lock that does not exclude (the guard is handed out
\* while another call holds it).
AcquireNoExclusion(c) ==
    /\ pc[c] = "waiting"
    /\ waitq # <<>>
    /\ Head(waitq) = c
    /\ owner' = Some(c)
    /\ waitq' = Tail(waitq)
    /\ pc' = [ pc EXCEPT ![c] = "locked" ]
    /\ UNCHANGED << now, trueLag, config, reloads, state, snap, step, invoked, result, withinBudget >>

\* Line 107 completes: the mutex is free and the caller is first in line.
Acquire(c) ==
    /\ pc[c] = "waiting"
    /\ owner = None
    /\ waitq # <<>>
    /\ Head(waitq) = c
    /\ owner' = Some(c)
    /\ waitq' = Tail(waitq)
    /\ pc' = [ pc EXCEPT ![c] = "locked" ]
    /\ UNCHANGED << now, trueLag, config, reloads, state, snap, step, invoked, result, withinBudget >>

\* Lines 112-127: one poll of try_join!.  When it is Ready the value the
\* call is about to return is known; the guard is still alive.
Poll(c) ==
    /\ owner = Some(c)
    /\ pc[c] \in {"locked", "polling"}
    /\ \E o1 \in PollOutcomes(c, SyncQueue), o2 \in PollOutcomes(c, XdbBlobstore) :
         LET j == TryJoin(c, o1, o2) IN
         /\ state' = [ t \in Targets |-> IF t = SyncQueue THEN j.r1.last ELSE j.r2.last ]
         /\ step' = [ step EXCEPT ![c] =
                        [ t \in Targets |-> IF t = SyncQueue THEN j.r1.step ELSE j.r2.step ] ]
         /\ invoked' = [ invoked EXCEPT ![c] =
                        [ t \in Targets |-> IF t = SyncQueue THEN j.r1.inv ELSE j.r2.inv ] ]
         /\ result' = [ result EXCEPT ![c] = j.out ]
         /\ pc' = [ pc EXCEPT ![c] = IF j.out = NoResult THEN "polling" ELSE "done" ]
         /\ withinBudget' = [ withinBudget EXCEPT ![c] =
                [ t \in Targets |->
                    LET new == IF t = SyncQueue THEN j.r1.step ELSE j.r2.step IN
                    IF step[c][t].st \notin OkSteps /\ new.st \in OkSteps \ {"unconfigured"}
                    THEN trueLag[t] <= Unwrap(snap[c][t]).max_replication_lag_allowed_ms
                    ELSE withinBudget[c][t] ] ]
    /\ UNCHANGED << now, trueLag, config, reloads, owner, waitq, snap >>

\* Variant of Return: the cache lives as long as one call, it is emptied when
\* the call returns.
ReturnClearsCache(c) ==
    /\ owner = Some(c)
    /\ pc[c] = "done"
    /\ owner' = None
    /\ pc' = [ pc EXCEPT ![c] = "idle" ]
    /\ snap' = [ snap EXCEPT ![c] = [ t \in Targets |-> None ] ]
    /\ step' = [ step EXCEPT ![c] = [ t \in Targets |-> InitStep ] ]
    /\ invoked' = [ invoked EXCEPT ![c] = [ t \in Targets |-> 0 ] ]
    /\ result' = [ result EXCEPT ![c] = NoResult ]
    /\ withinBudget' = [ withinBudget EXCEPT ![c] = [ t \in Targets |-> TRUE ] ]
    /\ state' = [ t \in Targets |-> None ]
    /\ UNCHANGED << now, trueLag, config, reloads, waitq >>

\* Variant of Return: the guard is released on the Ok path only.
ReturnKeepsLockOnError(c) ==
    /\ owner = Some(c)
    /\ pc[c] = "done"
    /\ owner' = IF result[c].tag = "err" THEN owner ELSE None
    /\ pc' = [ pc EXCEPT ![c] = "idle" ]
    /\ snap' = [ snap EXCEPT ![c] = [ t \in Targets |-> None ] ]
    /\ step' = [ step EXCEPT ![c] = [ t \in Targets |-> InitStep ] ]
    /\ invoked' = [ invoked EXCEPT ![c] = [ t \in Targets |-> 0 ] ]
    /\ result' = [ result EXCEPT ![c] = NoResult ]
    /\ withinBudget' = [ withinBudget EXCEPT ![c] = [ t \in Targets |-> TRUE ] ]
    /\ UNCHANGED << now, trueLag, config, reloads, state, waitq >>

\* Lines 127-129: the call returns its result; `state_lock` goes out of
\* scope, which releases the mutex, and the locals of the call are gone.
Return(c) ==
    /\ owner = Some(c)
    /\ pc[c] = "done"
    /\ owner' = None
    /\ pc' = [ pc EXCEPT ![c] = "idle" ]
    /\ snap' = [ snap EXCEPT ![c] = [ t \in Targets |-> None ] ]
    /\ step' = [ step EXCEPT ![c] = [ t \in Targets |-> InitStep ] ]
    /\ invoked' = [ invoked EXCEPT ![c] = [ t \in Targets |-> 0 ] ]
    /\ result' = [ result EXCEPT ![c] = NoResult ]
    /\ withinBudget' = [ withinBudget EXCEPT ![c] = [ t \in Targets |-> TRUE ] ]
    /\ UNCHANGED << now, trueLag, config, reloads, state, waitq >>

\* The configuration store publishes a new configuration for one table.
Reload(t, tc) ==
    /\ reloads < MaxReloads
    /\ tc # config[t]
    /\ config' = [ config EXCEPT ![t] = tc ]
    /\ reloads' = reloads + 1
    /\ UNCHANGED << now, trueLag, state, owner, waitq, pc, snap, step, invoked, result, withinBudget >>

\* Time passes; each replica catches up or falls behind by at most the time passed.
Tick ==
    /\ now < MaxTime
    /\ now' = now + 1
    /\ \E l \in [Targets -> 0..MaxLag] :
         /\ \A t \in Targets : l[t] <= trueLag[t] + 1
         /\ trueLag' = l
    /\ UNCHANGED << config, reloads, state, owner, waitq, pc, snap, step, invoked, result, withinBudget >>

Next ==
    \/ \E c \in Callers : Enter(c)
    \/ \E c \in Callers : Acquire(c)
    \/ \E c \in Callers : Poll(c)
    \/ \E c \in Callers : Return(c)
    \/ Tick

\* Any configuration, which stays as it is.
Spec == Init /\ [][Next]_vars

\* A gate constructed with caught-up replicas under the rarely polled budget
\* for both tables, with configuration reloads.
InitReload ==
    /\ Init
    /\ trueLag = [ t \in Targets |-> 0 ]
    /\ config = [ t \in Targets |-> Some(TableConfig(Budget, MaxTime + 1)) ]

NextReload ==
    \/ Next
    \/ \E t \in Targets, tc \in {None} \cup { Some(x) : x \in ReplicationLagTableConfig } :
         Reload(t, tc)

SpecReload == InitReload /\ [][NextReload]_vars

\* A poll in which the step of target t stops waiting: its monitor returned
\* (line 167 completes), or the step ended without a query, or try_join!
\* ended the call.
MonitorReturns(c, t) ==
    /\ step[c][t].st \in {"init", "querying"}
    /\ Poll(c)
    /\ step'[c][t].st # "querying"

\* The executor keeps polling: the mutex hands the guard to the first waiter
\* once it is free (tokio's Mutex is fair), a finished call returns, and
\* every monitor query that was issued returns at some time.
Fairness ==
    \A c \in Callers :
        /\ WF_vars(Acquire(c))
        /\ WF_vars(Return(c))
        /\ \A t \in Targets : WF_vars(MonitorReturns(c, t))

\* A gate constructed with caught-up replicas, the sync queue under the
\* rarely polled budget and the XDB blobstore under the always polled one.
InitFair ==
    /\ Init
    /\ trueLag = [ t \in Targets |-> 0 ]
    /\ config = [ t \in Targets |->
                    Some(TableConfig(Budget, IF t = SyncQueue THEN MaxTime + 1 ELSE 0)) ]

SpecFair == InitFair /\ [][Next]_vars /\ Fairness

\* A gate constructed with caught-up replicas and both tables under a budget
\* whose poll interval elapses within the run.
InitSpacing ==
    /\ now = 0
    /\ trueLag = [ t \in Targets |-> 0 ]
    /\ config = [ t \in Targets |-> Some(TableConfig(Budget, MaxTime)) ]
    /\ reloads = 0
    /\ state = [ t \in Targets |-> None ]
    /\ owner = None
    /\ waitq = <<>>
    /\ pc = [ c \in Callers |-> "idle" ]
    /\ snap = [ c \in Callers |-> [ t \in Targets |-> None ] ]
    /\ step = [ c \in Callers |-> [ t \in Targets |-> InitStep ] ]
    /\ invoked = [ c \in Callers |-> [ t \in Targets |-> 0 ] ]
    /\ result = [ c \in Callers |-> NoResult ]
    /\ withinBudget = [ c \in Callers |-> [ t \in Targets |-> TRUE ] ]

SpecSpacing == InitSpacing /\ [][Next]_vars

\* Variant of Abandon: the guard outlives the dropped future.
AbandonKeepsLock(c) ==
    /\ pc[c] \in {"waiting", "polling"}
    /\ pc' = [ pc EXCEPT ![c] = "dropped" ]
    /\ owner' = owner
    /\ waitq' = SelectSeq(waitq, LAMBDA x : x # c)
    /\ step' = [ step EXCEPT ![c] =
                   [ t \in Targets |->
                       Dropped([ step |-> step[c][t], last |-> state[t],
                                 inv |-> invoked[c][t] ]).step ] ]
    /\ UNCHANGED << now, trueLag, config, reloads, state, snap, invoked, result, withinBudget >>

\* The caller drops the future of wait_for_replication at one of its awaits.
\* At line 107 the caller leaves the line of waiters; at lines 112-127 the
\* two wait_for_table futures are dropped with it, unfinished queries are
\* abandoned, and `state_lock` is dropped, which releases the mutex.  The
\* State behind the mutex is not touched.
Abandon(c) ==
    /\ pc[c] \in {"waiting", "polling"}
    /\ pc' = [ pc EXCEPT ![c] = "dropped" ]
    /\ owner' = IF owner = Some(c) THEN None ELSE owner
    /\ waitq' = SelectSeq(waitq, LAMBDA x : x # c)
    /\ step' = [ step EXCEPT ![c] =
                   [ t \in Targets |->
                       Dropped([ step |-> step[c][t], last |-> state[t],
                                 inv |-> invoked[c][t] ]).step ] ]
    /\ UNCHANGED << now, trueLag, config, reloads, state, snap, invoked, result, withinBudget >>

\* Nothing of the dropped future is left; the caller may call again.
Forget(c) ==
    /\ pc[c] = "dropped"
    /\ pc' = [ pc EXCEPT ![c] = "idle" ]
    /\ snap' = [ snap EXCEPT ![c] = [ t \in Targets |-> None ] ]
    /\ step' = [ step EXCEPT ![c] = [ t \in Targets |-> InitStep ] ]
    /\ invoked' = [ invoked EXCEPT ![c] = [ t \in Targets |-> 0 ] ]
    /\ result' = [ result EXCEPT ![c] = NoResult ]
    /\ withinBudget' = [ withinBudget EXCEPT ![c] = [ t \in Targets |-> TRUE ] ]
    /\ UNCHANGED << now, trueLag, config, reloads, state, owner, waitq >>

NextAbandon ==
    \/ Next
    \/ \E c \in Callers : Abandon(c)
    \/ \E c \in Callers : Forget(c)

\* Callers that may give up a call they have started.
SpecAbandon == InitFair /\ [][NextAbandon]_vars

\* A gate constructed with replicas that are far behind and both tables
\* under the widest budget, rarely polled; a reload may tighten the budget of
\* a table or unconfigure it.
InitTighten ==
    /\ now = 0
    /\ trueLag = [ t \in Targets |-> MaxLag ]
    /\ config = [ t \in Targets |-> Some(TableConfig(MaxLag, MaxTime + 1)) ]
    /\ reloads = 0
    /\ state = [ t \in Targets |-> None ]
    /\ owner = None
    /\ waitq = <<>>
    /\ pc = [ c \in Callers |-> "idle" ]
    /\ snap = [ c \in Callers |-> [ t \in Targets |-> None ] ]
    /\ step = [ c \in Callers |-> [ t \in Targets |-> InitStep ] ]
    /\ invoked = [ c \in Callers |-> [ t \in Targets |-> 0 ] ]
    /\ result = [ c \in Callers |-> NoResult ]
    /\ withinBudget = [ c \in Callers |-> [ t \in Targets |-> TRUE ] ]

NextTighten ==
    \/ Next
    \/ \E t \in Targets, tc \in { None, Some(TableConfig(Budget, MaxTime + 1)) } :
         Reload(t, tc)

SpecTighten == InitTighten /\ [][NextTighten]_vars

\* ------------------------------------------------------------------- claims
InCall == {"locked", "polling", "done"}
MaxAllowed(c, t) == Unwrap(snap[c][t]).max_replication_lag_allowed_ms
PollInterval(c, t) == Unwrap(snap[c][t]).poll_interval_ms
Configured(c, t) == snap[c][t] # None
Malformed(c, t) == Configured(c, t) /\ (MaxAllowed(c, t) < 0 \/ PollInterval(c, t) < 0)
WellFormed(c, t) == Configured(c, t) /\ ~Malformed(c, t)
FirstPoll(c) == owner = Some(c) /\ pc[c] = "locked" /\ pc'[c] # "locked"
Returning(c) == pc[c] # "done" /\ pc'[c] = "done"
CachedLag(t) == Unwrap(state[t]).duration
CachedAge(t) == now - Unwrap(state[t]).instant
Other(t) == IF t = SyncQueue THEN XdbBlobstore ELSE SyncQueue

\* C1: mutual exclusion.  At most one call is between lock acquisition and
\* return, the holder of the mutex is that call, and a caller that has not
\* acquired the lock has neither decided anything from the cache nor invoked
\* a monitor.
C1_MutualExclusion ==
    /\ \A c1, c2 \in Callers : pc[c1] \in InCall /\ pc[c2] \in InCall => c1 = c2
    /\ \A c \in Callers : pc[c] \in InCall <=> owner = Some(c)
    /\ \A c \in Callers : pc[c] \notin InCall =>
           \A t \in Targets : step[c][t] = InitStep /\ invoked[c][t] = 0

\* One call waits on a monitor while the other caller is queued behind it.
C1_Witness ==
    \E c1, c2 \in Callers :
        /\ c1 # c2
        /\ pc[c1] = "polling"
        /\ \E t \in Targets : step[c1][t].st = "querying"
        /\ pc[c2] = "waiting"

\* C2 as claimed: whenever a call is about to return success, every target
\* that was configured in the call had a true lag within its budget at the
\* moment its step finished.
C2_Original ==
    \A c \in Callers : pc[c] = "done" /\ result[c] = OkResult =>
        \A t \in Targets : Configured(c, t) => withinBudget[c][t]

\* C2 amended: whenever a call is about to return success, every configured
\* target that was freshly queried or skipped by the conservative bound had a
\* true lag within its budget when its step finished; a target skipped
\* because it was queried less than poll_interval ago only has a cached lag
\* below its budget.
C2_SuccessBudget ==
    \A c \in Callers : pc[c] = "done" /\ result[c] = OkResult =>
        \A t \in Targets : Configured(c, t) =>
            /\ step[c][t].st \in {"updated", "skip_bound", "skip_recent"}
            /\ step[c][t].st \in {"updated", "skip_bound"} => withinBudget[c][t]
            /\ step[c][t].st = "skip_recent" =>
                   IsSome(state[t]) /\ Unwrap(state[t]).duration < MaxAllowed(c, t)

\* A successful call in which one target was skipped by the conservative
\* bound and the other was freshly queried after the replica had lagged.
C2_Witness ==
    \E c \in Callers, t \in Targets :
        /\ pc[c] = "done" /\ result[c] = OkResult
        /\ step[c][t].st = "skip_bound"
        /\ step[c][Other(t)].st = "updated"
        /\ Unwrap(state[Other(t)]).duration > 0

\* C3: a target without a ThresholdConfig in the call's configuration never
\* has its monitor invoked by the call, its Observation is left as it was,
\* and the call never fails because of it; with the other target skipped
\* from the cache the call succeeds with no monitor invocation at all.
C3_Unconfigured ==
    [][ \A c \in Callers, t \in Targets :
          owner = Some(c) /\ ~Configured(c, t) /\ pc'[c] \in InCall =>
              /\ state'[t] = state[t]
              /\ invoked'[c][t] = 0
              /\ step'[c][t].st \in {"init", "unconfigured"}
              /\ result'[c].target # t
              /\ ( /\ pc'[c] = "done"
                   /\ step'[c][Other(t)].st \in {"skip_recent", "skip_bound"} )
                 => /\ result'[c] = OkResult
                    /\ \A u \in Targets : invoked'[c][u] = 0 ]_vars

\* Scenario C with a cached Observation on the unconfigured target: the call
\* is about to return success, nothing was invoked, the Observation is there.
C3_Witness ==
    \E c \in Callers, t \in Targets :
        /\ pc[c] = "done" /\ result[c] = OkResult
        /\ ~Configured(c, t) /\ step[c][t].st = "unconfigured"
        /\ IsSome(state[t])
        /\ step[c][Other(t)].st \in {"skip_recent", "skip_bound"}
        /\ \A u \in Targets : invoked[c][u] = 0

\* C4 as claimed: a call that finds a cached Observation with
\* lag + elapsed >= max_allowed_lag issues a fresh monitor query for that
\* target, whatever poll_interval is.
C4_Original ==
    [][ \A c \in Callers, t \in Targets :
          ( /\ FirstPoll(c) /\ WellFormed(c, t) /\ IsSome(state[t])
            /\ CachedLag(t) + CachedAge(t) >= MaxAllowed(c, t) )
          => invoked'[c][t] = 1 ]_vars

\* C4 amended: a call that finds a cached Observation with
\* lag + elapsed >= max_allowed_lag, and not both elapsed < poll_interval and
\* lag < max_allowed_lag, issues a fresh monitor query for that target when
\* it runs the target's step; the XDB blobstore's step is not run when the
\* sync queue's step has failed in the same (first) poll.
C4_FreshQuery ==
    [][ \A c \in Callers, t \in Targets :
          ( /\ FirstPoll(c) /\ WellFormed(c, t) /\ IsSome(state[t])
            /\ CachedLag(t) + CachedAge(t) >= MaxAllowed(c, t)
            /\ ~(CachedAge(t) < PollInterval(c, t) /\ CachedLag(t) < MaxAllowed(c, t))
            /\ t = XdbBlobstore => step'[c][SyncQueue].st \notin ErrSteps )
          => /\ invoked'[c][t] = 1
             /\ step'[c][t].st \in {"querying", "updated", "mon_error", "cancelled"} ]_vars

\* Scenario B: a query is in flight for a target whose cached Observation is
\* at the budget although it was measured less than poll_interval ago.
C4_Witness ==
    \E c \in Callers, t \in Targets :
        /\ pc[c] = "polling" /\ step[c][t].st = "querying" /\ invoked[c][t] = 1
        /\ IsSome(state[t])
        /\ CachedLag(t) >= MaxAllowed(c, t)
        /\ CachedAge(t) < PollInterval(c, t)

\* C5: a call that finds a cached Observation with lag < max_allowed_lag and
\* elapsed < poll_interval issues no monitor query for that target and leaves
\* the Observation unchanged, up to its return.
C5_RecentSkip ==
    [][ \A c \in Callers, t \in Targets :
          /\ ( /\ FirstPoll(c) /\ WellFormed(c, t) /\ IsSome(state[t])
               /\ CachedLag(t) < MaxAllowed(c, t)
               /\ CachedAge(t) < PollInterval(c, t) )
             => /\ invoked'[c][t] = 0
                /\ state'[t] = state[t]
                /\ step'[c][t].st \in {"skip_recent", "init"}
                /\ step'[c][t].st = "init" => pc'[c] = "done"
          /\ ( owner = Some(c) /\ step[c][t].st = "skip_recent" /\ pc'[c] \in InCall )
             => /\ invoked'[c][t] = 0
                /\ state'[t] = state[t]
                /\ step'[c][t] = step[c][t] ]_vars

\* A target was skipped as queried too recently although its cached lag plus
\* the elapsed time has reached the budget.
C5_Witness ==
    \E c \in Callers, t \in Targets :
        /\ pc[c] \in InCall /\ step[c][t].st = "skip_recent" /\ invoked[c][t] = 0
        /\ CachedAge(t) > 0
        /\ CachedLag(t) + CachedAge(t) >= MaxAllowed(c, t)

\* C6: from lock acquisition up to and including the failure of a target's
\* monitor query the target's Observation is not changed, and the failure
\* makes the call fail.
C6_FailureKeepsObservation ==
    [][ \A c \in Callers, t \in Targets :
          ( /\ owner = Some(c)
            /\ step[c][t].st \in {"init", "querying"}
            /\ step'[c][t].st \in {"init", "querying", "mon_error"} )
          => /\ state'[t] = state[t]
             /\ step'[c][t].st = "mon_error" =>
                    pc'[c] = "done" /\ result'[c].tag = "err" ]_vars

\* A monitor query failed in a call that found an older Observation, which
\* is still there.
C6_Witness ==
    \E c \in Callers, t \in Targets :
        /\ pc[c] = "done" /\ step[c][t].st = "mon_error"
        /\ IsSome(state[t]) /\ CachedAge(t) > 0

\* C7: when a monitor query returns success with lag L, the target's
\* Observation becomes (now, L), whatever it was before.
C7_SuccessReplaces ==
    [][ \A c \in Callers, t \in Targets :
          step[c][t].st # "updated" /\ step'[c][t].st = "updated"
          => /\ state'[t] = Some([ instant |-> now, duration |-> trueLag[t] ])
             /\ invoked'[c][t] = 1 ]_vars

\* A query has just stored a non-zero lag measured after the clock started.
C7_Witness ==
    \E c \in Callers, t \in Targets :
        /\ pc[c] \in InCall /\ step[c][t].st = "updated"
        /\ state[t] = Some([ instant |-> now, duration |-> trueLag[t] ])
        /\ now > 0 /\ trueLag[t] > 0

\* C8 as claimed: the step of the other target is never aborted.
C8_Original ==
    \A c \in Callers, t \in Targets : step[c][t].st # "cancelled"

\* C8 amended: when one target's step fails the call returns at once and no
\* step is left running: the other target's step, if its query was still in
\* flight, is dropped without updating the cache (always so for the XDB
\* blobstore when the sync queue fails, which is polled first); only a query
\* that had already completed has updated the cache.
C8_FailureDropsSibling ==
    [][ \A c \in Callers :
          Returning(c) /\ result'[c].tag = "err" =>
            LET f == result'[c].target
                u == Other(result'[c].target) IN
            /\ step'[c][f].st \in ErrSteps
            /\ step'[c][u].st \in {"init", "cancelled"} \cup OkSteps
            /\ step[c][u].st = "querying" /\ f = SyncQueue => step'[c][u].st = "cancelled"
            /\ step[c][u].st = "querying" => step'[c][u].st \in {"cancelled", "updated"}
            /\ step'[c][u].st \in {"init", "cancelled"} => state'[u] = state[u]
            /\ step'[c][u].st = "cancelled" => invoked'[c][u] = 1 ]_vars

\* A call failed on one target while the other target's query was in flight:
\* the query was dropped and the cache has no Observation for it.
C8_Witness ==
    \E c \in Callers, t \in Targets :
        /\ pc[c] = "done" /\ result[c].tag = "err" /\ result[c].target = t
        /\ step[c][Other(t)].st = "cancelled"
        /\ state[Other(t)] = None

\* C9 as claimed: a malformed threshold of any target makes the call fail
\* with a configuration error before any monitor is invoked.
C9_Original ==
    \A c \in Callers :
        pc[c] \in {"polling", "done"} /\ (\E t \in Targets : Malformed(c, t)) =>
            /\ pc[c] = "done"
            /\ result[c].kind = "config"
            /\ \A u \in Targets : invoked[c][u] = 0

\* C9 amended: a malformed threshold of a target makes the call fail in its
\* first poll, before that target's monitor is invoked.  If the target is the
\* sync queue the error is its configuration error and no monitor at all is
\* invoked; if it is the XDB blobstore, the sync queue's step has run first:
\* it may have invoked its monitor, and if it failed the call fails with the
\* sync queue's error instead.
C9_MalformedFails ==
    \A c \in Callers, t \in Targets :
        pc[c] \in {"polling", "done"} /\ Malformed(c, t) =>
            /\ pc[c] = "done"
            /\ result[c].tag = "err"
            /\ invoked[c][t] = 0
            /\ t = SyncQueue =>
                   /\ result[c] = ErrResult(SyncQueue, "config", "TryFromIntError")
                   /\ \A u \in Targets : invoked[c][u] = 0
                   /\ step[c][XdbBlobstore] = InitStep
            /\ t = XdbBlobstore =>
                   \/ result[c] = ErrResult(XdbBlobstore, "config", "TryFromIntError")
                   \/ result[c].target = SyncQueue /\ step[c][SyncQueue].st \in ErrSteps

\* The XDB blobstore's threshold is malformed; the call fails with its
\* configuration error after the sync queue's monitor was invoked.
C9_Witness ==
    \E c \in Callers :
        /\ pc[c] = "done" /\ Malformed(c, XdbBlobstore)
        /\ result[c] = ErrResult(XdbBlobstore, "config", "TryFromIntError")
        /\ invoked[c][SyncQueue] = 1
        /\ step[c][SyncQueue].st = "cancelled"

\* C10: a monitor error that reaches the Gate ends the call with failure, and
\* the failure is that target's error, with the monitor's error code; a call
\* never returns success with a failed step, and one step at most fails.
C10_ErrorPropagates ==
    \A c \in Callers :
        /\ \A t \in Targets : step[c][t].st = "mon_error" =>
               /\ pc[c] = "done"
               /\ step[c][t].err \in MonitorErrors
               /\ result[c] = ErrResult(t, "monitor", step[c][t].err)
               /\ step[c][Other(t)].st \notin ErrSteps
        /\ result[c] = OkResult => \A t \in Targets : step[c][t].st \in OkSteps

\* The XDB blobstore's monitor timed out after the sync queue's query had
\* succeeded; the call is about to return that error.
C10_Witness ==
    \E c \in Callers :
        /\ pc[c] = "done"
        /\ step[c][SyncQueue].st = "updated"
        /\ step[c][XdbBlobstore] = Step("mon_error", "timeout")
        /\ result[c] = ErrResult(XdbBlobstore, "monitor", "timeout")

\* C11: the gate never retries.  In every reachable state each target's
\* monitor has been invoked at most once by a call: exactly once when the
\* target's step reached the query (whether the query is in flight, returned
\* a lag, failed, or was abandoned), and not at all otherwise.
C11_NoRetry ==
    \A c \in Callers : \A t \in Targets :
        /\ invoked[c][t] <= 1
        /\ step[c][t].st \in {"querying", "updated", "mon_error", "cancelled"}
               => invoked[c][t] = 1
        /\ step[c][t].st \in {"init", "unconfigured", "skip_recent", "skip_bound", "cfg_error"}
               => invoked[c][t] = 0

\* A call returns the failure of a query for a target with an older cached
\* measurement, having invoked that monitor once.
C11_Witness ==
    \E c \in Callers : \E t \in Targets :
        /\ pc[c] = "done"
        /\ result[c] = ErrResult(t, "monitor", "timeout")
        /\ step[c][t].st = "mon_error"
        /\ invoked[c][t] = 1
        /\ IsSome(state[t])
        /\ Unwrap(state[t]).instant < now

\* C12: a cache entry changes only in a step in which the call that holds the
\* lock completes a successful monitor query for that very target: the step
\* of that target goes from not finished to "updated" with the monitor
\* invoked once, and the entry becomes the current time with the lag the
\* monitor returned.  No other step (a skip, a configuration error, a monitor
\* failure, an unconfigured target, waiting for the lock, returning, the
\* clock) creates, changes or clears an entry.
C12_OnlyQueryWrites ==
    [][ \A t \in Targets :
          state'[t] # state[t] =>
            \E c \in Callers :
                /\ owner = Some(c)
                /\ owner' = Some(c)
                /\ step[c][t].st \in {"init", "querying"}
                /\ step'[c][t].st = "updated"
                /\ invoked'[c][t] = 1
                /\ trueLag[t] <= MaxAllowed(c, t)
                /\ state'[t] = Some([ instant |-> now, duration |-> trueLag[t] ])
                /\ \A d \in Callers \ {c} : step'[d][t] = InitStep ]_vars

\* The holder of the lock has replaced the entry of one target by a query
\* that returned now, while its step for the other target skipped on an older
\* entry and left it as it was; another caller waits for the lock.
C12_Witness ==
    \E c \in Callers : \E d \in Callers \ {c} : \E t \in Targets :
        /\ owner = Some(c)
        /\ pc[d] = "waiting"
        /\ step[c][t].st = "updated"
        /\ state[t] = Some([ instant |-> now, duration |-> trueLag[t] ])
        /\ step[c][Other(t)].st \in {"skip_recent", "skip_bound"}
        /\ IsSome(state[Other(t)])
        /\ Unwrap(state[Other(t)]).instant < now

\* The target is configured well in the call of c and neither rule lets its
\* step skip: the cache entry is absent, or not (recent and under the
\* budget) and not (lag plus age under the budget).
NeedsQuery(c, t) ==
    /\ WellFormed(c, t)
    /\ \/ state[t] = None
       \/ /\ ~(CachedAge(t) < PollInterval(c, t) /\ CachedLag(t) < MaxAllowed(c, t))
          /\ ~(CachedLag(t) + CachedAge(t) < MaxAllowed(c, t))

\* C13 as stated: when both targets need a fresh query, the first poll of the
\* call invokes both monitors and the sync queue's monitor has not returned
\* by then.
C13_Original ==
    [][ \A c \in Callers :
          FirstPoll(c) /\ NeedsQuery(c, SyncQueue) /\ NeedsQuery(c, XdbBlobstore) =>
            /\ invoked'[c][SyncQueue] = 1
            /\ invoked'[c][XdbBlobstore] = 1
            /\ step'[c][SyncQueue].st \in {"querying", "cancelled"} ]_vars

\* C13: when both targets need a fresh query, the first poll of the call
\* invokes the sync queue's monitor, and in the same poll the XDB blobstore's
\* monitor unless the sync queue's query has already failed in that poll.  A
\* sync queue query that is still pending never holds the other query back:
\* no step leaves the sync queue's query in flight with the XDB blobstore's
\* step not started.  When the sync queue's monitor answers at once, the XDB
\* blobstore's monitor is invoked after it returned Ok, and not at all after
\* it returned an error.
C13_ConcurrentQueries ==
    [][ \A c \in Callers :
          /\ FirstPoll(c) /\ NeedsQuery(c, SyncQueue) /\ NeedsQuery(c, XdbBlobstore) =>
                /\ invoked'[c][SyncQueue] = 1
                /\ step'[c][SyncQueue].st # "mon_error" => invoked'[c][XdbBlobstore] = 1
                /\ step'[c][SyncQueue].st = "mon_error" =>
                      invoked'[c][XdbBlobstore] = 0 /\ step'[c][XdbBlobstore] = InitStep
          /\ step'[c][SyncQueue].st = "querying" => step'[c][XdbBlobstore].st # "init" ]_vars

\* Both monitors of one call have been invoked and neither has returned;
\* both queries have been in flight together while the clock ran out.
C13_Witness ==
    \E c \in Callers :
        /\ pc[c] = "polling"
        /\ \A t \in Targets :
              step[c][t].st = "querying" /\ invoked[c][t] = 1 /\ state[t] = None
        /\ now = MaxTime

\* C14: a call reads the configuration once, when it is entered and before
\* it queues for the lock: entering stores the configuration of that moment
\* for both targets, and from then until the call returns its snapshot stays
\* as it is, whatever is reloaded meanwhile.  The steps of a call follow its
\* snapshot: an unconfigured target is passed, a malformed one fails, a well
\* formed one skips or queries.  A reload changes neither a snapshot, nor the
\* cache, nor any call in progress; a call entered after it reads the new
\* configuration.
C14_OneSnapshot ==
    [][ /\ \A c \in Callers :
             /\ pc[c] = "idle" /\ pc'[c] # "idle" =>
                   pc'[c] = "waiting" /\ owner' = owner /\ snap'[c] = config
             /\ pc[c] # "idle" /\ pc'[c] # "idle" => snap'[c] = snap[c]
             /\ \A t \in Targets :
                   step'[c][t] # step[c][t] /\ pc'[c] # "idle" =>
                      /\ ~Configured(c, t) => step'[c][t].st = "unconfigured"
                      /\ Malformed(c, t) => step'[c][t].st = "cfg_error"
                      /\ WellFormed(c, t) =>
                            step'[c][t].st \notin {"unconfigured", "cfg_error"}
        /\ config' # config =>
              UNCHANGED << state, snap, step, invoked, result, pc, owner, waitq >>
      ]_vars

\* A reload happened after a call was entered: the call is polling its
\* queries under a snapshot that is no longer the current configuration,
\* while a caller that entered after the reload waits with the new one.
C14_Witness ==
    \E c \in Callers : \E d \in Callers \ {c} :
        /\ pc[c] = "polling"
        /\ snap[c] # config
        /\ pc[d] = "waiting"
        /\ snap[d] = config

\* C15: when every monitor query that is issued returns, every call that
\* has been entered acquires the lock and then returns, however the callers
\* contend; while a call waits for the lock it has no result, so waiting
\* alone never yields an error.
C15_Liveness ==
    /\ \A c \in Callers : (pc[c] = "waiting") ~> (pc[c] \in InCall)
    /\ \A c \in Callers : (pc[c] = "waiting") ~> (pc[c] = "done")
    /\ [](\A c \in Callers : pc[c] = "waiting" => result[c] = NoResult)

\* A call has finished with Ok and still holds the guard while the other
\* caller is first in line for the lock.
C15_Witness ==
    \E c \in Callers : \E d \in Callers \ {c} :
        /\ pc[c] = "done"
        /\ result[c] = OkResult
        /\ pc[d] = "waiting"
        /\ waitq = << d >>
        /\ \E t \in Targets : step[c][t].st = "updated"

\* C16 as stated: under a configuration that does not change, a monitor query
\* for a target is issued at least poll_interval after the previous query for
\* that target returned its measurement (the cache entry holds the time the
\* latest successful query returned, so any query in between ended later).
C16_Original ==
    [][ \A c \in Callers, t \in Targets :
          ( /\ FirstPoll(c) /\ WellFormed(c, t) /\ IsSome(state[t])
            /\ invoked'[c][t] = 1 )
          => CachedAge(t) >= PollInterval(c, t) ]_vars

\* C16: poll_interval spaces the queries of a target only after a measurement
\* under the budget.  Under a configuration that does not change, a monitor
\* query issued for a target whose cached lag is below max_allowed_lag comes
\* at least poll_interval after that measurement, and not before lag plus
\* age has reached max_allowed_lag.  After a measurement at or over
\* max_allowed_lag the next call queries the sync queue again at once,
\* whatever poll_interval is.
C16_SpacingUnderBudget ==
    [][ \A c \in Callers :
          /\ \A t \in Targets :
                ( /\ FirstPoll(c) /\ WellFormed(c, t) /\ IsSome(state[t])
                  /\ CachedLag(t) < MaxAllowed(c, t)
                  /\ invoked'[c][t] = 1 )
                => /\ CachedAge(t) >= PollInterval(c, t)
                   /\ CachedLag(t) + CachedAge(t) >= MaxAllowed(c, t)
          /\ ( /\ FirstPoll(c) /\ WellFormed(c, SyncQueue) /\ IsSome(state[SyncQueue])
               /\ CachedLag(SyncQueue) >= MaxAllowed(c, SyncQueue) )
             => invoked'[c][SyncQueue] = 1 ]_vars

\* A query is in flight for a target whose cached measurement is under the
\* budget and a full, positive poll interval old.
C16_Witness ==
    \E c \in Callers, t \in Targets :
        /\ pc[c] = "polling" /\ step[c][t].st = "querying" /\ invoked[c][t] = 1
        /\ IsSome(state[t])
        /\ CachedLag(t) < MaxAllowed(c, t)
        /\ PollInterval(c, t) > 0
        /\ CachedAge(t) >= PollInterval(c, t)

\* The decision table for a target with a well formed configuration in the
\* call of c: query when nothing is cached, or when neither skip rule holds.
TableSaysQuery(c, t) ==
    \/ state[t] = None
    \/ /\ ~(CachedAge(t) < PollInterval(c, t) /\ CachedLag(t) < MaxAllowed(c, t))
       /\ ~(CachedLag(t) + CachedAge(t) < MaxAllowed(c, t))

\* C17 as stated: for a target with a well formed configuration the monitor
\* is queried in a call if and only if the decision table says so.
C17_Original ==
    [][ \A c \in Callers, t \in Targets :
          FirstPoll(c) /\ WellFormed(c, t) =>
             (invoked'[c][t] = 1 <=> TableSaysQuery(c, t)) ]_vars

\* C17: the decision table holds for every step that is run.  For a target
\* with a well formed configuration whose step is run (the sync queue's
\* always, the XDB blobstore's unless the sync queue's step failed in the
\* first poll of the call), the monitor is queried if and only if nothing is
\* cached or neither skip rule holds; otherwise the step ends Ok by the first
\* rule that holds, the poll interval rule before the bound rule.  A step
\* that is not run queries nothing.
C17_DecisionTable ==
    [][ \A c \in Callers, t \in Targets :
          FirstPoll(c) /\ WellFormed(c, t) =>
             IF t = XdbBlobstore /\ step'[c][SyncQueue].st \in ErrSteps
             THEN invoked'[c][t] = 0 /\ step'[c][t] = InitStep
             ELSE /\ invoked'[c][t] = 1 <=> TableSaysQuery(c, t)
                  /\ step'[c][t].st = "skip_recent" <=>
                        /\ IsSome(state[t])
                        /\ CachedAge(t) < PollInterval(c, t)
                        /\ CachedLag(t) < MaxAllowed(c, t)
                  /\ step'[c][t].st = "skip_bound" <=>
                        /\ IsSome(state[t])
                        /\ ~(CachedAge(t) < PollInterval(c, t) /\ CachedLag(t) < MaxAllowed(c, t))
                        /\ CachedLag(t) + CachedAge(t) < MaxAllowed(c, t) ]_vars

\* Two rows of the table in one call: the sync queue's step skipped on a
\* recent measurement under the budget, and the XDB blobstore's monitor is
\* being queried because its cached lag is at the budget, although that
\* measurement is younger than poll_interval.
C17_Witness ==
    \E c \in Callers :
        /\ pc[c] = "polling"
        /\ step[c][SyncQueue].st = "skip_recent" /\ invoked[c][SyncQueue] = 0
        /\ step[c][XdbBlobstore].st = "querying" /\ invoked[c][XdbBlobstore] = 1
        /\ IsSome(state[XdbBlobstore])
        /\ CachedLag(XdbBlobstore) >= MaxAllowed(c, XdbBlobstore)
        /\ CachedAge(XdbBlobstore) < PollInterval(c, XdbBlobstore)

\* C18: a caller queued for the lock decides nothing while it waits: it has
\* read no cache entry and invoked no monitor, and the cache changes under
\* it only by the holder of the lock storing a measurement.  Neither the
\* holder's return nor the hand-over of the lock changes the cache, so the
\* first poll of the caller that was queued decides on the cache as the
\* preceding call left it: for a target whose entry satisfies a skip rule at
\* that moment it invokes no monitor and leaves the entry as it is.
C18_Coalescing ==
    [][ \A d \in Callers :
          /\ pc'[d] = "waiting" =>
                \A t \in Targets : step'[d][t] = InitStep /\ invoked'[d][t] = 0
          /\ pc[d] = "waiting" =>
                \A t \in Targets :
                    state'[t] # state[t] =>
                        \E c \in Callers \ {d} :
                            owner = Some(c) /\ step'[c][t].st = "updated"
          /\ \A t \in Targets :
                ( /\ FirstPoll(d) /\ WellFormed(d, t) /\ IsSome(state[t])
                  /\ \/ CachedAge(t) < PollInterval(d, t) /\ CachedLag(t) < MaxAllowed(d, t)
                     \/ CachedLag(t) + CachedAge(t) < MaxAllowed(d, t) )
                => /\ invoked'[d][t] = 0
                   /\ state'[t] = state[t]
                   /\ step'[d][t].st \in {"skip_recent", "skip_bound", "init"} ]_vars

\* A caller is first in line behind a call that has just stored a
\* measurement of a target, and by the caller's own thresholds that entry
\* satisfies a skip rule at this moment.
C18_Witness ==
    \E c \in Callers : \E d \in Callers \ {c} : \E t \in Targets :
        /\ owner = Some(c)
        /\ step[c][t].st = "updated"
        /\ pc[d] = "waiting"
        /\ waitq = << d >>
        /\ WellFormed(d, t)
        /\ state[t] = Some([ instant |-> now, duration |-> 0 ])
        /\ CachedAge(t) < PollInterval(d, t)
        /\ CachedLag(t) < MaxAllowed(d, t)

\* C19: a measurement stored by one step of a call survives the failure of
\* the other step.  When a call ends with an error while the step of the
\* other target had stored its measurement, in an earlier poll or in the
\* same one, the error is the one of the failed step and the stored entry
\* is kept; returning the error leaves the cache as it is, so the entry is
\* what the next call reads.
C19_SuccessKept ==
    [][ \A c \in Callers :
          /\ \A t \in Targets :
                ( /\ Returning(c) /\ result'[c].tag = "err"
                  /\ step'[c][t].st = "updated" )
                => /\ result'[c].target = Other(t)
                   /\ IsSome(state'[t])
                   /\ step[c][t].st = "updated" => state'[t] = state[t]
                   /\ step[c][t].st # "updated" =>
                         state'[t] = Some([ instant |-> now, duration |-> trueLag[t] ])
          /\ pc[c] = "done" /\ result[c].tag = "err" /\ pc'[c] = "idle" =>
                state' = state /\ owner' = None ]_vars

\* A call has ended with the failure of the XDB blobstore's query after the
\* sync queue's query had stored a measurement at an earlier time.
C19_Witness ==
    \E c \in Callers :
        /\ pc[c] = "done"
        /\ result[c].tag = "err"
        /\ result[c].target = XdbBlobstore
        /\ step[c][SyncQueue].st = "updated"
        /\ step[c][XdbBlobstore].st = "mon_error"
        /\ IsSome(state[SyncQueue])
        /\ Unwrap(state[SyncQueue]).instant < now

\* C20: the gate puts no limit of its own on a monitor query.  As long as a
\* query of a call has not returned, the call has no result and holds the
\* lock, and every other caller is outside its critical section: it has read
\* no cache entry and invoked no monitor.  A query in flight ends only by its
\* monitor returning a lag or an error, or by the failure of the other
\* target's step; every error of a query is an error the monitor returned.
\* So a query that never returns, with no failure of the other step, keeps
\* the call and every later call waiting forever.
C20_PendingBlocks ==
    [][ \A c \in Callers : \A t \in Targets :
          /\ step'[c][t].st = "querying" =>
                /\ pc'[c] = "polling"
                /\ owner' = Some(c)
                /\ result'[c] = NoResult
                /\ \A d \in Callers \ {c} :
                      /\ pc'[d] \in {"idle", "waiting"}
                      /\ \A u \in Targets : step'[d][u] = InitStep /\ invoked'[d][u] = 0
          /\ step[c][t].st = "querying" /\ step'[c][t].st # "querying" =>
                \/ step'[c][t].st = "updated"
                \/ step'[c][t].st = "mon_error"
                \/ step'[c][t].st = "cancelled" /\ step'[c][Other(t)].st \in ErrSteps
          /\ step'[c][t].st = "mon_error" => step'[c][t].err \in MonitorErrors
          /\ step[c][t].st = "querying" /\ pc'[c] = "done" /\ result'[c] = OkResult =>
                step'[c][t].st = "updated" ]_vars

\* The clock has run out while the only query of a call is still in flight:
\* the call holds the lock with nothing cached for the target, the other
\* target's step has ended Ok, and the other caller waits for the lock.
C20_Witness ==
    \E c \in Callers : \E d \in Callers \ {c} : \E t \in Targets :
        /\ now = MaxTime
        /\ owner = Some(c)
        /\ pc[c] = "polling"
        /\ step[c][t].st = "querying"
        /\ state[t] = None
        /\ step[c][Other(t)].st \in OkSteps
        /\ pc[d] = "waiting"
        /\ waitq = << d >>

\* C21: the lock is released on every exit path.  A call that leaves with
\* any result (Ok, a monitor error, a configuration error) leaves the lock
\* free, and the first caller in line, if there is one, is waiting and so
\* can acquire it; the lock is held exactly by a caller that is inside its
\* call, so no call that has returned still holds it.
C21_ReleasedOnExit ==
    [][ \A c \in Callers :
          /\ pc[c] = "done" /\ pc'[c] # "done" =>
                /\ result[c].tag \in {"ok", "err"}
                /\ pc'[c] = "idle"
                /\ owner' = None
                /\ waitq' # <<>> => pc'[Head(waitq')] = "waiting"
          /\ owner' = Some(c) <=> pc'[c] \in InCall
          /\ pc[c] = "waiting" /\ pc'[c] = "locked" =>
                \A d \in Callers : pc[d] \notin InCall ]_vars

\* A call is about to return a configuration error while the other caller
\* is first in line for the lock.
C21_Witness ==
    \E c \in Callers : \E d \in Callers \ {c} :
        /\ pc[c] = "done"
        /\ result[c].tag = "err"
        /\ result[c].kind = "config"
        /\ pc[d] = "waiting"
        /\ waitq = << d >>

\* C22: a caller that drops its call while a monitor query is in flight
\* releases the lock, and the cache is left exactly as it was: the entries
\* of the targets whose queries had not completed are unchanged, and what a
\* completed query had stored stays.  The queries that were in flight are
\* abandoned, no monitor is invoked by the drop, the first caller in line, if
\* any, is waiting and can acquire the lock.  A caller that drops its call
\* while it waits for the lock leaves the line without touching the lock or
\* the cache.  The lock is held exactly by a caller inside its call.
C22_DropReleases ==
    [][ \A c \in Callers :
          /\ pc[c] = "polling" /\ pc'[c] = "dropped" =>
                /\ owner = Some(c)
                /\ owner' = None
                /\ state' = state
                /\ invoked'[c] = invoked[c]
                /\ \A t \in Targets :
                      /\ step[c][t].st = "querying" => step'[c][t].st = "cancelled"
                      /\ step[c][t].st # "querying" => step'[c][t] = step[c][t]
                /\ waitq' # <<>> => pc'[Head(waitq')] = "waiting"
          /\ pc[c] = "waiting" /\ pc'[c] = "dropped" =>
                /\ owner' = owner
                /\ state' = state
                /\ \A t \in Targets : step'[c][t] = InitStep /\ invoked'[c][t] = 0
          /\ pc'[c] = "dropped" => \A i \in 1..Len(waitq') : waitq'[i] # c
          /\ owner' = Some(c) <=> pc'[c] \in InCall ]_vars

\* A caller has dropped its call with one query in flight, after the other
\* target's query had stored its measurement: that measurement is cached,
\* nothing is cached for the abandoned target, and the other caller has
\* acquired the lock since and is querying.
C22_Witness ==
    \E c \in Callers : \E d \in Callers \ {c} : \E t \in Targets :
        /\ pc[c] = "dropped"
        /\ step[c][t].st = "cancelled"
        /\ state[t] = None
        /\ step[c][Other(t)].st = "updated"
        /\ IsSome(state[Other(t)])
        /\ owner = Some(d)
        /\ pc[d] = "polling"
        /\ step[d][t].st = "querying"

\* C23: the monitor answering Ok only with a lag within the budget it was
\* given, whenever a call has ended with Ok every target that was configured
\* in that call has a cache entry, and the cached lag is at most the
\* max_allowed_lag of that call, also when the entry was measured by an
\* earlier call under a wider budget.  The return leaves the cache as it is.
C23_SuccessMeansCached ==
    [][ \A c \in Callers :
          /\ pc'[c] = "done" /\ result'[c] = OkResult =>
                \A t \in Targets :
                    Configured(c, t) =>
                        /\ IsSome(state'[t])
                        /\ Unwrap(state'[t]).duration <= MaxAllowed(c, t)
          /\ pc[c] = "done" /\ result[c] = OkResult /\ pc'[c] = "idle" =>
                state' = state ]_vars

\* A call has ended with Ok after the sync queue's budget was tightened:
\* the sync queue's step skipped on an older entry that is within the
\* tighter budget, and the XDB blobstore's query stored a lag that only its
\* own, wider budget allows.
C23_Witness ==
    \E c \in Callers :
        /\ pc[c] = "done"
        /\ result[c] = OkResult
        /\ reloads = 1
        /\ \A t \in Targets : Configured(c, t)
        /\ MaxAllowed(c, SyncQueue) = Budget
        /\ MaxAllowed(c, XdbBlobstore) = MaxLag
        /\ step[c][SyncQueue].st \in {"skip_recent", "skip_bound"}
        /\ step[c][XdbBlobstore].st = "updated"
        /\ IsSome(state[SyncQueue])
        /\ Unwrap(state[SyncQueue]).instant < now
        /\ CachedLag(SyncQueue) < Budget
        /\ CachedLag(XdbBlobstore) = MaxLag

====
